---------------------------- MODULE Spec2Model ----------------------------
(***************************************************************************)
(* State-machine model of crates/wraith-xdp/src/xdp_filter.c: the XDP      *)
(* program xdp_wraith_filter, its two maps (xsks_map, stats_map) and the   *)
(* helpers it inlines.  One invocation runs per execution context (CPU);   *)
(* every bounds check and every header read of the C code is one step.     *)
(*                                                                         *)
(* Addresses are byte offsets from ctx->data, so data = 0 and data_end is  *)
(* the frame length.  The host is little-endian (clang -target bpf on a    *)
(* little-endian machine): a __be16 field is loaded low byte first and     *)
(* bpf_ntohs / bpf_htons swap the two bytes.                               *)
(***************************************************************************)
EXTENDS Integers, Sequences, FiniteSets, TLC

\* ------------------------------------------------------------------ bounds
\* Number of execution contexts (CPUs) running the program.
NCPU == 2
\* Frames delivered in one run of the "mixed" traffic profile.
MaxFrames == 2
\* Control-plane updates of xsks_map in one run.
MaxXskUpdates == 1

\* ------------------------------------------------------- program constants
WRAITH_PORT_MIN == 40000
WRAITH_PORT_MAX == 50000
MAX_SOCKETS == 64

STAT_RX_PACKETS == 0
STAT_RX_BYTES == 1
STAT_DROPPED == 2
STAT_REDIRECTED == 3
StatTypes == {STAT_RX_PACKETS, STAT_RX_BYTES, STAT_DROPPED, STAT_REDIRECTED}

\* enum xdp_action of <linux/bpf.h>
XDP_DROP == 1
XDP_PASS == 2
XDP_REDIRECT == 4

ETH_P_IP == 2048
ETH_P_IPV6 == 34525
IPPROTO_UDP == 17

\* sizeof(struct ethhdr), sizeof(struct iphdr), sizeof(struct ipv6hdr),
\* sizeof(struct udphdr)
SZ_ETHHDR == 14
SZ_IPHDR == 20
SZ_IPV6HDR == 40
SZ_UDPHDR == 8

\* offsetof(struct ethhdr, h_proto); offsets inside struct iphdr of the
\* version/ihl byte, frag_off and protocol; inside struct ipv6hdr of the
\* version/priority byte and nexthdr; inside struct udphdr of dest.
OFF_H_PROTO == 12
OFF_IP_VIHL == 0
OFF_IP_FRAG_OFF == 6
OFF_IP_PROTOCOL == 9
OFF_IP6_VERSION == 0
OFF_IP6_NEXTHDR == 6
OFF_UDP_DEST == 2

\* The constant of the fragmentation test, 0x1FFF.
FRAG_MASK == 8191

CPUs == 1..NCPU

\* ------------------------------------------------------------- arithmetic
RECURSIVE BitAnd(_, _, _)
\* Bitwise AND of the low n bits of a and b.
BitAnd(a, b, n) ==
    IF n = 0 THEN 0
    ELSE (IF a % 2 = 1 /\ b % 2 = 1 THEN 1 ELSE 0)
         + 2 * BitAnd(a \div 2, b \div 2, n - 1)

\* Byte swap of a 16-bit value (little-endian host).
bpf_ntohs(x) == (x % 256) * 256 + (x \div 256)
bpf_htons(x) == (x % 256) * 256 + (x \div 256)

\* ----------------------------------------------------------------- frames
\* A frame is its length (data_end - data) and its bytes; b maps the offsets
\* that hold a nonzero-capable field, every other byte is 0.
Byte(f, i) == IF i \in DOMAIN f.b THEN f.b[i] ELSE 0

\* Load of a 16-bit field at offset off by the little-endian host.
LoadU16(f, off) == Byte(f, off) + 256 * Byte(f, off + 1)

\* Two bytes in network order.
U16BE(off, v) == (off :> (v \div 256)) @@ ((off + 1) :> (v % 256))

\* An Ethernet frame carrying an IPv4-layout header: ether-type, the
\* version and header-length nibbles, frag_off, protocol, the low half of
\* the source address, and a UDP destination port written at l4 + 2.  Header
\* bytes win where the two overlap.
V4Frame(len, etype, ver, ihl, frag, proto, saddr, l4, port) ==
    [len |-> len,
     b   |-> U16BE(OFF_H_PROTO, etype)
             @@ ((SZ_ETHHDR + OFF_IP_VIHL) :> (ver * 16 + ihl))
             @@ U16BE(SZ_ETHHDR + OFF_IP_FRAG_OFF, frag)
             @@ ((SZ_ETHHDR + OFF_IP_PROTOCOL) :> proto)
             @@ U16BE(SZ_ETHHDR + 14, saddr)
             @@ U16BE(l4 + OFF_UDP_DEST, port)]

\* An Ethernet frame carrying an IPv6-layout header.
V6Frame(len, etype, ver, nexthdr, l4, port) ==
    [len |-> len,
     b   |-> U16BE(OFF_H_PROTO, etype)
             @@ ((SZ_ETHHDR + OFF_IP6_VERSION) :> (ver * 16))
             @@ ((SZ_ETHHDR + OFF_IP6_NEXTHDR) :> nexthdr)
             @@ U16BE(l4 + OFF_UDP_DEST, port)]


\* ------------------------------------------------------------ traffic mix
\* Destination ports offered: the range's ends and their neighbours, the
\* two ports of the end-to-end examples, and two values (10400 = 0x28A0,
\* 16544 = 0x40A0) whose byte-swapped readings (41000, 41024) fall on the
\* other side of the range test.
Ports == {0, 8080, 10400, 16544, 39999, 40000, 41000, 50000, 50001, 65535}

\* frag_off values (host reading of the network-order field): none, DF,
\* MF, DF+MF, offsets in the low byte, in the high byte, all offset bits,
\* MF with an offset.
FragOffs == {0, 16384, 8192, 24576, 1, 32, 256, 8191, 8193}

EtherTypes == {ETH_P_IP, ETH_P_IPV6, 2054, 8, 56710, 33024}
Versions == {0, 4, 5, 6}
Protocols == {IPPROTO_UDP, 6, 1, 0}

\* Frames of every length 0..MaxLen for every IPv4 header-length value and
\* for IPv6, each carrying an in-range port where its UDP header would be.
MaxLen == 90
LenFrames ==
    {V4Frame(n, ETH_P_IP, 4, h, 0, IPPROTO_UDP, 0, SZ_ETHHDR + 4 * h, 41000) :
        n \in 0..MaxLen, h \in 0..15}
    \cup {V6Frame(n, ETH_P_IPV6, 6, IPPROTO_UDP, SZ_ETHHDR + SZ_IPV6HDR, 41000) :
        n \in 0..MaxLen}

\* Complete frames over every port, with and without IPv4 options.
PortFrames ==
    {V4Frame(14 + 4 * h + 8 + pad, ETH_P_IP, 4, h, df, IPPROTO_UDP, 0,
             SZ_ETHHDR + 4 * h, p) :
        h \in {5, 6, 15}, pad \in {0, 18}, df \in {0, 16384}, p \in Ports}
    \cup {V6Frame(62 + pad, ETH_P_IPV6, 6, IPPROTO_UDP,
                  SZ_ETHHDR + SZ_IPV6HDR, p) : pad \in {0, 18}, p \in Ports}

\* Complete IPv4 frames over every frag_off value.
FragFrames ==
    {V4Frame(14 + 4 * h + 8 + 18, ETH_P_IP, 4, h, fr, pr, 0,
             SZ_ETHHDR + 4 * h, p) :
        h \in {5, 6}, fr \in FragOffs, pr \in {IPPROTO_UDP, 6},
        p \in {41000, 8080}}

\* Complete frames over every ether-type, version nibble and L4 protocol.
ProtoFrames ==
    {V4Frame(60, et, v, 5, 0, pr, 0, SZ_ETHHDR + SZ_IPHDR, p) :
        et \in EtherTypes, v \in Versions, pr \in Protocols,
        p \in {41000, 8080}}
    \cup {V6Frame(62, et, v, pr, SZ_ETHHDR + SZ_IPV6HDR, p) :
        et \in EtherTypes, v \in Versions, pr \in Protocols,
        p \in {41000, 8080}}

\* Complete IPv4 frames with options (header length above 5) that carry an
\* in-range port where the UDP header of an option-less packet would be,
\* and none where their own UDP header is.
DecoyFrames ==
    {V4Frame(14 + 4 * h + 8 + pad, ETH_P_IP, 4, h, 0, IPPROTO_UDP, 0,
             SZ_ETHHDR + SZ_IPHDR, 41000) : h \in 6..15, pad \in {0, 18}}

SurveyFrames ==
    LenFrames \cup PortFrames \cup FragFrames \cup ProtoFrames
    \cup DecoyFrames

\* The frames of the "mixed" profile: the end-to-end examples of the
\* documentation, a later fragment, a first fragment (MF set, offset 0), a
\* non-WRAITH port, TCP, ARP, and a truncated frame.
MixedFrames ==
    {V4Frame(60, ETH_P_IP, 4, 5, 0, IPPROTO_UDP, 0, 34, 41000),
     V4Frame(42, ETH_P_IP, 4, 5, 16384, IPPROTO_UDP, 0, 34, 40000),
     V6Frame(62, ETH_P_IPV6, 6, IPPROTO_UDP, 54, 50000),
     V4Frame(60, ETH_P_IP, 4, 5, 0, IPPROTO_UDP, 0, 34, 8080),
     V4Frame(60, ETH_P_IP, 4, 5, 0, 6, 0, 34, 41000),
     V4Frame(60, ETH_P_IP, 4, 5, 185, IPPROTO_UDP, 0, 34, 41000),
     V4Frame(60, ETH_P_IP, 4, 5, 8192, IPPROTO_UDP, 0, 34, 41000),
     V4Frame(60, 2054, 0, 1, 0, 0, 0, 34, 41000),
     V4Frame(10, ETH_P_IP, 4, 5, 0, IPPROTO_UDP, 0, 34, 41000)}

\* The frames of the "parallel" profile: a matching IPv4 frame, a matching
\* IPv6 frame and a frame for another port.
ParFrames ==
    {V4Frame(60, ETH_P_IP, 4, 5, 0, IPPROTO_UDP, 0, 34, 41000),
     V6Frame(62, ETH_P_IPV6, 6, IPPROTO_UDP, 54, 50000),
     V4Frame(60, ETH_P_IP, 4, 5, 0, IPPROTO_UDP, 0, 34, 8080)}

\* The frames the interface may deliver under a traffic profile, and how
\* many of them in one run ("pair": the mixed frames, two per run;
\* "parallel": two frames, on two CPUs at once; "absent": one of the
\* mixed frames).
Wire(profile) ==
    IF profile = "survey" THEN SurveyFrames
    ELSE IF profile = "parallel" THEN ParFrames
    ELSE MixedFrames

FrameBudget(profile) ==
    IF profile \in {"survey", "absent"} THEN 1
    ELSE IF profile \in {"pair", "parallel"} THEN 2
    ELSE MaxFrames

\* RX queue indices frames arrive on.  Each queue is served by one CPU.
RxQueues == {0, 3}
CpuOf(q) == (q % NCPU) + 1

\* ------------------------------------------------- the frame on the wire
\* What a frame is, read from its bytes in network order as the protocol
\* documents define it; the program's own parsing is modelled further down.
BE16(f, off) == Byte(f, off) * 256 + Byte(f, off + 1)
EtherType(f) == BE16(f, 12)
L3Version(f) == Byte(f, 14) \div 16
Ihl(f) == Byte(f, 14) % 16
FragField(f) == BE16(f, 20)
DontFragment(f) == (FragField(f) \div 16384) % 2 = 1
MoreFragments(f) == (FragField(f) \div 8192) % 2 = 1
FragOffset(f) == FragField(f) % 8192
Ipv4Fragmented(f) == MoreFragments(f) \/ FragOffset(f) # 0

\* A well-formed Ethernet+IPv4+UDP frame: the IPv4 header has at least its
\* 20 fixed bytes and the frame holds it and the UDP header whole.
WellFormedV4Udp(f) ==
    /\ EtherType(f) = 2048
    /\ L3Version(f) = 4
    /\ Ihl(f) >= 5
    /\ Byte(f, 23) = 17
    /\ f.len >= 14 + 4 * Ihl(f) + 8

\* A well-formed Ethernet+IPv6+UDP frame: UDP directly after the fixed header.
WellFormedV6Udp(f) ==
    /\ EtherType(f) = 34525
    /\ L3Version(f) = 6
    /\ Byte(f, 20) = 17
    /\ f.len >= 14 + 40 + 8

\* The UDP destination port of a well-formed frame.
DestPort(f) ==
    IF EtherType(f) = 2048 THEN BE16(f, 14 + 4 * Ihl(f) + 2) ELSE BE16(f, 56)

\* The WRAITH selection criteria of the documentation: UDP, not an IPv4
\* fragment, destination port in the closed range 40000..50000.
WraithCriteria(f) ==
    /\ \/ WellFormedV4Udp(f) /\ ~Ipv4Fragmented(f)
       \/ WellFormedV6Udp(f)
    /\ DestPort(f) \in 40000..50000

\* ------------------------------------------------------------------ state
VARIABLES
    traffic,      \* the traffic profile of the run (fixed)
    frames_left,  \* frames the interface has still to deliver
    xsk_updates,  \* control-plane updates of xsks_map so far
    xsks_map,     \* the queue ids that have an AF_XDP socket registered
    stats_map,    \* stats_map[cpu][type]: the per-CPU counters
    pc,           \* pc[cpu]: where the invocation on that CPU stands
    ctx,          \* ctx[cpu]: the xdp_md of the invocation (frame, rx queue)
    loc,          \* loc[cpu]: the locals eth_proto, udp, dport, ret
    verdict,      \* verdict[cpu]: the XDP action returned
    chk,          \* chk[cpu]: the extent proven <= data_end, the last read
    entry,        \* entry[cpu]: stats_map and xsk_updates at entry
    history       \* a remembered completed invocation, and tallies of
                  \* the completed invocations that met WraithCriteria

vars == <<traffic, frames_left, xsk_updates, xsks_map, stats_map, pc, ctx,
          loc, verdict, chk, entry, history>>

NoFrame == [len |-> 0, b |-> <<>>]
NoCtx == [frame |-> NoFrame, rx_queue_index |-> 0]
NoLoc == [eth_proto |-> 0, udp |-> 0, dport |-> 0, ret |-> 0]
NoChk == [bound |-> 0, lo |-> 0, hi |-> 0, struct_end |-> 0, calls |-> 0]
ZeroStats == [c \in CPUs |-> [t \in StatTypes |-> 0]]
NoEntry == [stats |-> ZeroStats, gen |-> 0]

Max(a, b) == IF a >= b THEN a ELSE b

InitWith(profile) ==
    /\ traffic = profile
    /\ frames_left = FrameBudget(profile)
    /\ xsk_updates = 0
    /\ xsks_map \in SUBSET {q \in RxQueues : q < MAX_SOCKETS}
    /\ stats_map = ZeroStats
    /\ pc = [c \in CPUs |-> "idle"]
    /\ ctx = [c \in CPUs |-> NoCtx]
    /\ loc = [c \in CPUs |-> NoLoc]
    /\ verdict = [c \in CPUs |-> -1]
    /\ chk = [c \in CPUs |-> NoChk]
    /\ entry = [c \in CPUs |-> NoEntry]
    /\ history = [seen |-> {}, matched |-> 0, bytes |-> 0,
                  applied |-> [t \in StatTypes |-> 0]]

Init == InitWith("mixed")
InitSurvey == InitWith("survey")
InitPair == InitWith("pair")
InitPar == InitWith("parallel")

\* The "absent" profile: the lookup of one statistics slot, of all of them
\* or of none fails on every CPU.
InitAbsent ==
    /\ traffic = "absent"
    /\ frames_left = FrameBudget("absent")
    /\ xsk_updates = 0
    /\ xsks_map \in SUBSET {q \in RxQueues : q < MAX_SOCKETS}
    /\ \E present \in {StatTypes, {}} \cup {StatTypes \ {t} : t \in StatTypes} :
          stats_map = [c \in CPUs |-> [t \in present |-> 0]]
    /\ pc = [c \in CPUs |-> "idle"]
    /\ ctx = [c \in CPUs |-> NoCtx]
    /\ loc = [c \in CPUs |-> NoLoc]
    /\ verdict = [c \in CPUs |-> -1]
    /\ chk = [c \in CPUs |-> NoChk]
    /\ entry = [c \in CPUs |-> NoEntry]
    /\ history = [seen |-> {}, matched |-> 0, bytes |-> 0,
                  applied |-> [t \in StatTypes |-> 0]]

\* ---------------------------------------------------------------- helpers
\* bpf_map_lookup_elem(&stats_map, &type): the slot of the running CPU, or
\* NULL (FALSE) when the map holds no slot for the key.
stats_lookup(st, c, type) == type \in DOMAIN st[c]

\* update_stat counting calls instead of adding delta.
update_stat_incr(st, c, type, delta) ==
    IF stats_lookup(st, c, type)
    THEN [st EXCEPT ![c][type] = @ + 1]
    ELSE st

\* update_stat storing delta in the slot instead of adding it.
update_stat_store(st, c, type, delta) ==
    IF stats_lookup(st, c, type)
    THEN [st EXCEPT ![c][type] = delta]
    ELSE st

\* update_stat on an array shared by the CPUs: every CPU adds to one slot.
update_stat_shared(st, c, type, delta) ==
    IF stats_lookup(st, c, type)
    THEN [st EXCEPT ![1][type] = @ + delta]
    ELSE st

\* update_stat on CPU c: add delta to the slot when the lookup found it.
update_stat(st, c, type, delta) ==
    IF stats_lookup(st, c, type)
    THEN [st EXCEPT ![c][type] = @ + delta]
    ELSE st

\* bpf_redirect_map(&xsks_map, key, flags): XDP_REDIRECT when the map holds
\* an entry for key, else the action in the low bits of flags.
bpf_redirect_map(map, key, flags) ==
    IF key \in map THEN XDP_REDIRECT ELSE flags % 4

\* The bounds checks: does the struct starting at off end past data_end?
ethhdr_past_end(data, data_end) == data + SZ_ETHHDR > data_end
iphdr_past_end(iphdr, data_end) == iphdr + SZ_IPHDR > data_end
ipv6hdr_past_end(ipv6hdr, data_end) == ipv6hdr + SZ_IPV6HDR > data_end
\* The UDP bounds check without the size of the header.
udphdr_past_end_nosize(udphdr, data_end) == udphdr > data_end
\* The UDP bounds check rejecting a header that ends exactly at data_end.
udphdr_past_end_strict(udphdr, data_end) == udphdr + SZ_UDPHDR >= data_end
udphdr_past_end(udphdr, data_end) == udphdr + SZ_UDPHDR > data_end

\* The bitfields of the first byte of struct iphdr and struct ipv6hdr.
ip_version(byte0) == byte0 \div 16
ip_ihl(byte0) == byte0 % 16

\* The fragmentation test on the frag_off field as loaded.
ip_is_fragment(frag_off) ==
    BitAnd(frag_off, bpf_htons(FRAG_MASK), 16) # 0

\* The UDP header taken to follow the 20 fixed bytes of the IPv4 header.
udp_v4_start_fixed(iphdr, ihl) == iphdr + SZ_IPHDR

\* Where the UDP header of an IPv4 / IPv6 packet starts.
udp_v4_start(iphdr, ihl) == iphdr + ihl * 4
udp_v6_start(ipv6hdr) == ipv6hdr + SZ_IPV6HDR

\* The range test with both ends excluded.
is_wraith_port_excl(dport) ==
    dport > WRAITH_PORT_MIN /\ dport < WRAITH_PORT_MAX

is_wraith_port(dport) ==
    dport >= WRAITH_PORT_MIN /\ dport <= WRAITH_PORT_MAX

\* The dispatch treating every ether-type but IPv6 as IPv4.
l3_branch_default_ip(eth_proto) ==
    IF eth_proto = ETH_P_IPV6 THEN "ip6_bounds" ELSE "ip_bounds"

\* The dispatch reading the ether-type again for a type it does not know.
l3_branch_again(eth_proto) ==
    IF eth_proto = ETH_P_IP THEN "ip_bounds"
    ELSE IF eth_proto = ETH_P_IPV6 THEN "ip6_bounds"
    ELSE "eth_proto"

\* Which branch of the dispatch an ether-type takes.
l3_branch(eth_proto) ==
    IF eth_proto = ETH_P_IP THEN "ip_bounds"
    ELSE IF eth_proto = ETH_P_IPV6 THEN "ip6_bounds"
    ELSE "pass"

InFlight == {c \in CPUs : pc[c] # "idle"}

\* ---------------------------------------------------------------- actions
\* ctx->data and ctx->data_end of the invocation on CPU c, as offsets.
Data(c) == 0
DataEnd(c) == ctx[c].frame.len

\* The queues whose next frame CPU c may be handed.  In the "parallel"
\* profile the queue-to-CPU affinity is free, but a queue is polled by one
\* CPU at a time; in the other profiles queue q belongs to CpuOf(q).
QueuesOn(c) ==
    IF traffic = "parallel"
    THEN {r \in RxQueues :
             \A d \in InFlight : ctx[d].rx_queue_index # r}
    ELSE {r \in RxQueues : CpuOf(r) = c}

\* The driver hands frame f, received on queue q, to the program on a CPU
\* serving the queue.  Only in the "parallel" profile do invocations on
\* different CPUs overlap.
Receive(c) ==
    /\ pc[c] = "idle"
    /\ frames_left > 0
    /\ traffic # "parallel" => InFlight = {}
    /\ \E q \in QueuesOn(c) : \E f \in Wire(traffic) :
          ctx' = [ctx EXCEPT ![c] = [frame |-> f, rx_queue_index |-> q]]
    /\ frames_left' = frames_left - 1
    /\ pc' = [pc EXCEPT ![c] = "entry"]
    /\ loc' = [loc EXCEPT ![c] = NoLoc]
    /\ verdict' = [verdict EXCEPT ![c] = -1]
    /\ chk' = [chk EXCEPT ![c] = NoChk]
    /\ entry' = [entry EXCEPT ![c] = [stats |-> stats_map, gen |-> xsk_updates]]
    /\ UNCHANGED <<traffic, xsk_updates, xsks_map, stats_map, history>>

\* parse_ethhdr: the bounds check of the Ethernet header.
ParseEth(c) ==
    /\ pc[c] = "entry"
    /\ IF ethhdr_past_end(Data(c), DataEnd(c))
       THEN /\ pc' = [pc EXCEPT ![c] = "pass"]
            /\ UNCHANGED chk
       ELSE /\ pc' = [pc EXCEPT ![c] = "eth_proto"]
            /\ chk' = [chk EXCEPT ![c].bound = Max(@, Data(c) + SZ_ETHHDR)]
    /\ UNCHANGED <<traffic, frames_left, xsk_updates, xsks_map, stats_map,
                   ctx, loc, verdict, entry, history>>

\* eth_proto = bpf_ntohs(eth->h_proto), and the branch on it.
ReadProto(c) ==
    /\ pc[c] = "eth_proto"
    /\ LET eth == Data(c)
           proto == bpf_ntohs(LoadU16(ctx[c].frame, eth + OFF_H_PROTO))
       IN  /\ loc' = [loc EXCEPT ![c].eth_proto = proto]
           /\ chk' = [chk EXCEPT ![c].lo = eth + OFF_H_PROTO,
                                 ![c].hi = eth + OFF_H_PROTO + 2,
                                 ![c].struct_end = eth + SZ_ETHHDR]
           /\ pc' = [pc EXCEPT ![c] = l3_branch(proto)]
    /\ UNCHANGED <<traffic, frames_left, xsk_updates, xsks_map, stats_map,
                   ctx, verdict, entry, history>>

\* parse_iphdr: the bounds check of the IPv4 header.
IpBounds(c) ==
    /\ pc[c] = "ip_bounds"
    /\ LET iphdr == Data(c) + SZ_ETHHDR
       IN  IF iphdr_past_end(iphdr, DataEnd(c))
           THEN /\ pc' = [pc EXCEPT ![c] = "pass"]
                /\ UNCHANGED chk
           ELSE /\ pc' = [pc EXCEPT ![c] = "ip_version"]
                /\ chk' = [chk EXCEPT ![c].bound = Max(@, iphdr + SZ_IPHDR)]
    /\ UNCHANGED <<traffic, frames_left, xsk_updates, xsks_map, stats_map,
                   ctx, loc, verdict, entry, history>>

\* parse_iphdr handing a header whose version nibble is 6 to the IPv6
\* parser.
IpVersion_fallback(c) ==
    /\ pc[c] = "ip_version"
    /\ LET iphdr == Data(c) + SZ_ETHHDR
           version == ip_version(Byte(ctx[c].frame, iphdr + OFF_IP_VIHL))
       IN  /\ chk' = [chk EXCEPT ![c].lo = iphdr + OFF_IP_VIHL,
                                 ![c].hi = iphdr + OFF_IP_VIHL + 1,
                                 ![c].struct_end = iphdr + SZ_IPHDR]
           /\ pc' = [pc EXCEPT ![c] = IF version = 6 THEN "ip6_bounds"
                                      ELSE IF version # 4 THEN "pass"
                                      ELSE "ip_frag"]
    /\ UNCHANGED <<traffic, frames_left, xsk_updates, xsks_map, stats_map,
                   ctx, loc, verdict, entry, history>>

\* parse_iphdr: (*iphdr)->version != 4.
IpVersion(c) ==
    /\ pc[c] = "ip_version"
    /\ LET iphdr == Data(c) + SZ_ETHHDR
           version == ip_version(Byte(ctx[c].frame, iphdr + OFF_IP_VIHL))
       IN  /\ chk' = [chk EXCEPT ![c].lo = iphdr + OFF_IP_VIHL,
                                 ![c].hi = iphdr + OFF_IP_VIHL + 1,
                                 ![c].struct_end = iphdr + SZ_IPHDR]
           /\ pc' = [pc EXCEPT ![c] = IF version # 4 THEN "pass" ELSE "ip_frag"]
    /\ UNCHANGED <<traffic, frames_left, xsk_updates, xsks_map, stats_map,
                   ctx, loc, verdict, entry, history>>

\* parse_iphdr: the fragmentation test on (*iphdr)->frag_off.
IpFrag(c) ==
    /\ pc[c] = "ip_frag"
    /\ LET iphdr == Data(c) + SZ_ETHHDR
           frag_off == LoadU16(ctx[c].frame, iphdr + OFF_IP_FRAG_OFF)
       IN  /\ chk' = [chk EXCEPT ![c].lo = iphdr + OFF_IP_FRAG_OFF,
                                 ![c].hi = iphdr + OFF_IP_FRAG_OFF + 2,
                                 ![c].struct_end = iphdr + SZ_IPHDR]
           /\ pc' = [pc EXCEPT ![c] =
                        IF ip_is_fragment(frag_off) THEN "pass" ELSE "udp4_proto"]
    /\ UNCHANGED <<traffic, frames_left, xsk_updates, xsks_map, stats_map,
                   ctx, loc, verdict, entry, history>>

\* parse_udphdr_v4: iphdr->protocol != IPPROTO_UDP.
Udp4Proto(c) ==
    /\ pc[c] = "udp4_proto"
    /\ LET iphdr == Data(c) + SZ_ETHHDR
           protocol == Byte(ctx[c].frame, iphdr + OFF_IP_PROTOCOL)
       IN  /\ chk' = [chk EXCEPT ![c].lo = iphdr + OFF_IP_PROTOCOL,
                                 ![c].hi = iphdr + OFF_IP_PROTOCOL + 1,
                                 ![c].struct_end = iphdr + SZ_IPHDR]
           /\ pc' = [pc EXCEPT ![c] =
                        IF protocol # IPPROTO_UDP THEN "pass" ELSE "udp4_bounds"]
    /\ UNCHANGED <<traffic, frames_left, xsk_updates, xsks_map, stats_map,
                   ctx, loc, verdict, entry, history>>

\* parse_udphdr_v4: *udphdr = iphdr + ihl * 4 and its bounds check.
Udp4Bounds(c) ==
    /\ pc[c] = "udp4_bounds"
    /\ LET iphdr == Data(c) + SZ_ETHHDR
           ihl == ip_ihl(Byte(ctx[c].frame, iphdr + OFF_IP_VIHL))
           udphdr == udp_v4_start(iphdr, ihl)
       IN  /\ loc' = [loc EXCEPT ![c].udp = udphdr]
           /\ IF udphdr_past_end(udphdr, DataEnd(c))
              THEN /\ pc' = [pc EXCEPT ![c] = "pass"]
                   /\ chk' = [chk EXCEPT ![c].lo = iphdr + OFF_IP_VIHL,
                                         ![c].hi = iphdr + OFF_IP_VIHL + 1,
                                         ![c].struct_end = iphdr + SZ_IPHDR]
              ELSE /\ pc' = [pc EXCEPT ![c] = "port"]
                   /\ chk' = [chk EXCEPT ![c].lo = iphdr + OFF_IP_VIHL,
                                         ![c].hi = iphdr + OFF_IP_VIHL + 1,
                                         ![c].struct_end = iphdr + SZ_IPHDR,
                                         ![c].bound = Max(@, udphdr + SZ_UDPHDR)]
    /\ UNCHANGED <<traffic, frames_left, xsk_updates, xsks_map, stats_map,
                   ctx, verdict, entry, history>>

\* parse_ipv6hdr: the bounds check of the IPv6 header.
Ip6Bounds(c) ==
    /\ pc[c] = "ip6_bounds"
    /\ LET ipv6hdr == Data(c) + SZ_ETHHDR
       IN  IF ipv6hdr_past_end(ipv6hdr, DataEnd(c))
           THEN /\ pc' = [pc EXCEPT ![c] = "pass"]
                /\ UNCHANGED chk
           ELSE /\ pc' = [pc EXCEPT ![c] = "ip6_version"]
                /\ chk' = [chk EXCEPT ![c].bound = Max(@, ipv6hdr + SZ_IPV6HDR)]
    /\ UNCHANGED <<traffic, frames_left, xsk_updates, xsks_map, stats_map,
                   ctx, loc, verdict, entry, history>>

\* parse_ipv6hdr: (*ipv6hdr)->version != 6.
Ip6Version(c) ==
    /\ pc[c] = "ip6_version"
    /\ LET ipv6hdr == Data(c) + SZ_ETHHDR
           version == ip_version(Byte(ctx[c].frame, ipv6hdr + OFF_IP6_VERSION))
       IN  /\ chk' = [chk EXCEPT ![c].lo = ipv6hdr + OFF_IP6_VERSION,
                                 ![c].hi = ipv6hdr + OFF_IP6_VERSION + 1,
                                 ![c].struct_end = ipv6hdr + SZ_IPV6HDR]
           /\ pc' = [pc EXCEPT ![c] = IF version # 6 THEN "pass" ELSE "udp6_next"]
    /\ UNCHANGED <<traffic, frames_left, xsk_updates, xsks_map, stats_map,
                   ctx, loc, verdict, entry, history>>

\* parse_udphdr_v6: ipv6hdr->nexthdr != IPPROTO_UDP.
Udp6Next(c) ==
    /\ pc[c] = "udp6_next"
    /\ LET ipv6hdr == Data(c) + SZ_ETHHDR
           nexthdr == Byte(ctx[c].frame, ipv6hdr + OFF_IP6_NEXTHDR)
       IN  /\ chk' = [chk EXCEPT ![c].lo = ipv6hdr + OFF_IP6_NEXTHDR,
                                 ![c].hi = ipv6hdr + OFF_IP6_NEXTHDR + 1,
                                 ![c].struct_end = ipv6hdr + SZ_IPV6HDR]
           /\ pc' = [pc EXCEPT ![c] =
                        IF nexthdr # IPPROTO_UDP THEN "pass" ELSE "udp6_bounds"]
    /\ UNCHANGED <<traffic, frames_left, xsk_updates, xsks_map, stats_map,
                   ctx, loc, verdict, entry, history>>

\* parse_udphdr_v6: *udphdr = ipv6hdr + sizeof(struct ipv6hdr) and its
\* bounds check.
Udp6Bounds(c) ==
    /\ pc[c] = "udp6_bounds"
    /\ LET ipv6hdr == Data(c) + SZ_ETHHDR
           udphdr == udp_v6_start(ipv6hdr)
       IN  /\ loc' = [loc EXCEPT ![c].udp = udphdr]
           /\ IF udphdr_past_end(udphdr, DataEnd(c))
              THEN /\ pc' = [pc EXCEPT ![c] = "pass"]
                   /\ UNCHANGED chk
              ELSE /\ pc' = [pc EXCEPT ![c] = "port"]
                   /\ chk' = [chk EXCEPT ![c].bound = Max(@, udphdr + SZ_UDPHDR)]
    /\ UNCHANGED <<traffic, frames_left, xsk_updates, xsks_map, stats_map,
                   ctx, verdict, entry, history>>

\* dport = bpf_ntohs(udp->dest); if (!is_wraith_port(dport)) goto pass.
CheckPort(c) ==
    /\ pc[c] = "port"
    /\ LET udp == loc[c].udp
           dport == bpf_ntohs(LoadU16(ctx[c].frame, udp + OFF_UDP_DEST))
       IN  /\ loc' = [loc EXCEPT ![c].dport = dport]
           /\ chk' = [chk EXCEPT ![c].lo = udp + OFF_UDP_DEST,
                                 ![c].hi = udp + OFF_UDP_DEST + 2,
                                 ![c].struct_end = udp + SZ_UDPHDR]
           /\ pc' = [pc EXCEPT ![c] =
                        IF ~is_wraith_port(dport) THEN "pass" ELSE "stat_rx_packets"]
    /\ UNCHANGED <<traffic, frames_left, xsk_updates, xsks_map, stats_map,
                   ctx, verdict, entry, history>>

\* update_stat(STAT_RX_PACKETS, 1) giving the frame up when the lookup of
\* the slot fails.
StatRxPackets_bail(c) ==
    /\ pc[c] = "stat_rx_packets"
    /\ stats_map' = update_stat(stats_map, c, STAT_RX_PACKETS, 1)
    /\ pc' = [pc EXCEPT ![c] =
                 IF stats_lookup(stats_map, c, STAT_RX_PACKETS)
                 THEN "stat_rx_bytes" ELSE "pass"]
    /\ UNCHANGED <<traffic, frames_left, xsk_updates, xsks_map, ctx, loc,
                   verdict, chk, entry, history>>

\* The packet counter left for later: nothing is counted at this point.
StatRxPackets_deferred(c) ==
    /\ pc[c] = "stat_rx_packets"
    /\ pc' = [pc EXCEPT ![c] = "stat_rx_bytes"]
    /\ UNCHANGED <<traffic, frames_left, xsk_updates, xsks_map, stats_map,
                   ctx, loc, verdict, chk, entry, history>>

\* update_stat(STAT_RX_PACKETS, 1).
StatRxPackets(c) ==
    /\ pc[c] = "stat_rx_packets"
    /\ stats_map' = update_stat(stats_map, c, STAT_RX_PACKETS, 1)
    /\ pc' = [pc EXCEPT ![c] = "stat_rx_bytes"]
    /\ UNCHANGED <<traffic, frames_left, xsk_updates, xsks_map, ctx, loc,
                   verdict, chk, entry, history>>

\* update_stat(STAT_RX_BYTES, data_end - data).
StatRxBytes(c) ==
    /\ pc[c] = "stat_rx_bytes"
    /\ stats_map' = update_stat(stats_map, c, STAT_RX_BYTES, DataEnd(c) - Data(c))
    /\ pc' = [pc EXCEPT ![c] = "redirect"]
    /\ UNCHANGED <<traffic, frames_left, xsk_updates, xsks_map, ctx, loc,
                   verdict, chk, entry, history>>

\* The helper's return value tested like an errno: >= 0 is success.
after_redirect_nonneg(ret) ==
    IF ret >= 0 THEN "stat_redirected" ELSE "stat_dropped"

\* Redirect granted only until the first frame has been redirected.
after_redirect_quota(ret) ==
    IF ret = XDP_REDIRECT /\ \A d \in CPUs : stats_map[d][STAT_REDIRECTED] = 0
    THEN "stat_redirected"
    ELSE "stat_dropped"

\* Where the invocation goes on the helper's return value.
after_redirect(ret) ==
    IF ret = XDP_REDIRECT THEN "stat_redirected" ELSE "stat_dropped"

\* queue_id = ctx->rx_queue_index; ret = bpf_redirect_map(&xsks_map,
\* queue_id, 0); if (ret == XDP_REDIRECT) ...
Redirect(c) ==
    /\ pc[c] = "redirect"
    /\ LET queue_id == ctx[c].rx_queue_index
           ret == bpf_redirect_map(xsks_map, queue_id, 0)
       IN  /\ loc' = [loc EXCEPT ![c].ret = ret]
           /\ pc' = [pc EXCEPT ![c] = after_redirect(ret)]
    /\ chk' = [chk EXCEPT ![c].calls = @ + 1]
    /\ UNCHANGED <<traffic, frames_left, xsk_updates, xsks_map, stats_map,
                   ctx, verdict, entry, history>>

\* update_stat(STAT_REDIRECTED, 1); return XDP_REDIRECT.
StatRedirected(c) ==
    /\ pc[c] = "stat_redirected"
    /\ stats_map' = update_stat(stats_map, c, STAT_REDIRECTED, 1)
    /\ verdict' = [verdict EXCEPT ![c] = XDP_REDIRECT]
    /\ pc' = [pc EXCEPT ![c] = "done"]
    /\ UNCHANGED <<traffic, frames_left, xsk_updates, xsks_map, ctx, loc,
                   chk, entry, history>>

\* return XDP_DROP without counting the drop.
StatDropped_uncounted(c) ==
    /\ pc[c] = "stat_dropped"
    /\ verdict' = [verdict EXCEPT ![c] = XDP_DROP]
    /\ pc' = [pc EXCEPT ![c] = "done"]
    /\ UNCHANGED <<traffic, frames_left, xsk_updates, xsks_map, stats_map,
                   ctx, loc, chk, entry, history>>

\* update_stat(STAT_DROPPED, 1); return XDP_DROP.
StatDropped(c) ==
    /\ pc[c] = "stat_dropped"
    /\ stats_map' = update_stat(stats_map, c, STAT_DROPPED, 1)
    /\ verdict' = [verdict EXCEPT ![c] = XDP_DROP]
    /\ pc' = [pc EXCEPT ![c] = "done"]
    /\ UNCHANGED <<traffic, frames_left, xsk_updates, xsks_map, ctx, loc,
                   chk, entry, history>>

\* The pass label counting the frame as received.
ReturnPass_counted(c) ==
    /\ pc[c] = "pass"
    /\ stats_map' = update_stat(stats_map, c, STAT_RX_PACKETS, 1)
    /\ verdict' = [verdict EXCEPT ![c] = XDP_PASS]
    /\ pc' = [pc EXCEPT ![c] = "done"]
    /\ UNCHANGED <<traffic, frames_left, xsk_updates, xsks_map,
                   ctx, loc, chk, entry, history>>

\* pass: return XDP_PASS.
ReturnPass(c) ==
    /\ pc[c] = "pass"
    /\ verdict' = [verdict EXCEPT ![c] = XDP_PASS]
    /\ pc' = [pc EXCEPT ![c] = "done"]
    /\ UNCHANGED <<traffic, frames_left, xsk_updates, xsks_map, stats_map,
                   ctx, loc, chk, entry, history>>

\* The kernel acts on the returned action, the invocation's locals are gone
\* and the CPU is free for the next frame.  The observer tallies the
\* invocation and may remember it, with the table it ran against, in place
\* of the one it remembered before (only an invocation during which no
\* control-plane update happened is remembered, and none of the "parallel"
\* profile).
Complete(c) ==
    /\ pc[c] = "done"
    /\ pc' = [pc EXCEPT ![c] = "idle"]
    /\ ctx' = [ctx EXCEPT ![c] = NoCtx]
    /\ loc' = [loc EXCEPT ![c] = NoLoc]
    /\ verdict' = [verdict EXCEPT ![c] = -1]
    /\ chk' = [chk EXCEPT ![c] = NoChk]
    /\ entry' = [entry EXCEPT ![c] = NoEntry]
    /\ LET rec == [frame |-> ctx[c].frame,
                   rx_queue_index |-> ctx[c].rx_queue_index,
                   table |-> xsks_map,
                   verdict |-> verdict[c]]
           hit == WraithCriteria(ctx[c].frame)
           delta == [t \in StatTypes |->
                       IF verdict[c] \notin {XDP_REDIRECT, XDP_DROP} THEN 0
                       ELSE IF t = STAT_RX_PACKETS THEN 1
                       ELSE IF t = STAT_RX_BYTES THEN ctx[c].frame.len
                       ELSE IF t = STAT_REDIRECTED
                       THEN (IF verdict[c] = XDP_REDIRECT THEN 1 ELSE 0)
                       ELSE (IF verdict[c] = XDP_DROP THEN 1 ELSE 0)]
       IN  \E keep \in {TRUE} \cup {\/ entry[c].gen # xsk_updates
                                    \/ traffic = "parallel"} :
              history' = [seen |-> IF keep THEN history.seen ELSE {rec},
                          matched |-> history.matched + (IF hit THEN 1 ELSE 0),
                          bytes |-> history.bytes
                                    + (IF hit THEN ctx[c].frame.len ELSE 0),
                          applied |-> [t \in StatTypes |->
                                         history.applied[t] + delta[t]]]
    /\ UNCHANGED <<traffic, frames_left, xsk_updates, xsks_map, stats_map>>

\* The user-space control plane registers (present) or removes the socket
\* of queue q; xsks_map holds keys below MAX_SOCKETS only.
XskUpdate(q, present) ==
    /\ xsk_updates < MaxXskUpdates
    /\ q < MAX_SOCKETS
    /\ present # (q \in xsks_map)
    /\ xsks_map' = IF present THEN xsks_map \cup {q} ELSE xsks_map \ {q}
    /\ xsk_updates' = xsk_updates + 1
    /\ UNCHANGED <<traffic, frames_left, stats_map, pc, ctx, loc, verdict,
                   chk, entry, history>>

\* One step of the program on CPU c.
Step(c) ==
    \/ ParseEth(c)
    \/ ReadProto(c)
    \/ IpBounds(c)
    \/ IpVersion(c)
    \/ IpFrag(c)
    \/ Udp4Proto(c)
    \/ Udp4Bounds(c)
    \/ Ip6Bounds(c)
    \/ Ip6Version(c)
    \/ Udp6Next(c)
    \/ Udp6Bounds(c)
    \/ CheckPort(c)
    \/ StatRxPackets(c)
    \/ StatRxBytes(c)
    \/ Redirect(c)
    \/ StatRedirected(c)
    \/ StatDropped(c)
    \/ ReturnPass(c)

Next ==
    \/ \E c \in CPUs : Receive(c)
    \/ \E c \in CPUs : Step(c)
    \/ \E c \in CPUs : Complete(c)
    \/ \E q \in RxQueues : \E present \in BOOLEAN : XskUpdate(q, present)

\* The "mixed" profile: a few frames of every kind, one after the other.
Spec == Init /\ [][Next]_vars

\* The "survey" profile: one frame out of SurveyFrames.
SpecSurvey == InitSurvey /\ [][Next]_vars

\* The "parallel" profile: invocations on different CPUs overlap.
SpecPar == InitPar /\ [][Next]_vars

\* The "absent" profile: statistics slots whose lookup fails.
SpecAbsent == InitAbsent /\ [][Next]_vars

\* An XDP program runs to completion once entered: it cannot block, and the
\* CPU it runs on is not taken from it for good.
SpecLive == InitPair /\ [][Next]_vars /\ \A c \in CPUs : WF_vars(Step(c))

\* ----------------------------------------------------------------- claims
Eligible == {XDP_REDIRECT, XDP_DROP}
Done(c) == pc[c] = "done"
Frame(c) == ctx[c].frame

\* No control-plane update happened since the invocation on c was entered.
TableStable(c) == entry[c].gen = xsk_updates

\* The counters of CPU c as they were at entry, with the given deltas added.
Counted(c, pkts, bytes, dropped, redirected) ==
    [entry[c].stats EXCEPT
        ![c][STAT_RX_PACKETS] = @ + pkts,
        ![c][STAT_RX_BYTES] = @ + bytes,
        ![c][STAT_DROPPED] = @ + dropped,
        ![c][STAT_REDIRECTED] = @ + redirected]

RECURSIVE SumStat(_, _, _)
\* Counter t summed over the CPUs 1..n.
SumStat(st, t, n) == IF n = 0 THEN 0 ELSE st[n][t] + SumStat(st, t, n - 1)

\* C1: a well-formed, non-fragmented IPv4/UDP frame and a well-formed
\* IPv6/UDP frame is redirected or dropped exactly when its destination
\* port, read in network order, lies in 40000..50000, and passed otherwise.
C1_PortRange ==
    \A c \in CPUs :
        /\ Done(c)
        /\ \/ WellFormedV4Udp(Frame(c)) /\ ~Ipv4Fragmented(Frame(c))
           \/ WellFormedV6Udp(Frame(c))
        => IF DestPort(Frame(c)) \in 40000..50000
           THEN verdict[c] \in Eligible
           ELSE verdict[c] = XDP_PASS

\* C1 witness: the lower end of the range is eligible, on an IPv4 frame
\* with options (the neighbours 39999 and 50001 are among Ports as well).
C1_Witness ==
    \E c \in CPUs :
        /\ Done(c)
        /\ WellFormedV4Udp(Frame(c))
        /\ Ihl(Frame(c)) = 6
        /\ DestPort(Frame(c)) = 40000
        /\ verdict[c] \in Eligible

\* C2 (as stated): an IPv4 frame with the more-fragments flag set or a
\* nonzero fragment offset is passed, and no counter changes.
C2_FragmentsPass ==
    \A c \in CPUs :
        /\ Done(c)
        /\ EtherType(Frame(c)) = 2048
        /\ Ipv4Fragmented(Frame(c))
        => /\ verdict[c] = XDP_PASS
           /\ stats_map = entry[c].stats

\* C3: an invocation that returns XDP_PASS has changed no counter of any
\* CPU.
C3_PassCountsNothing ==
    \A c \in CPUs :
        Done(c) /\ verdict[c] = XDP_PASS => stats_map = entry[c].stats

\* C3 witness: a passed frame after an earlier frame was counted.
C3_Witness ==
    \E c \in CPUs :
        /\ Done(c)
        /\ verdict[c] = XDP_PASS
        /\ EtherType(Frame(c)) = 2048
        /\ DestPort(Frame(c)) = 8080
        /\ SumStat(stats_map, STAT_RX_PACKETS, NCPU) = 1

\* C4 (as stated): with no invocation in flight, the summed rx_packets is
\* the number of completed invocations whose frame met the WRAITH criteria,
\* the summed rx_bytes is the sum of their lengths, and the summed
\* redirected + dropped is that number too.
C4_MatchedTally ==
    InFlight = {} =>
        /\ SumStat(stats_map, STAT_RX_PACKETS, NCPU) = history.matched
        /\ SumStat(stats_map, STAT_RX_BYTES, NCPU) = history.bytes
        /\ SumStat(stats_map, STAT_REDIRECTED, NCPU)
           + SumStat(stats_map, STAT_DROPPED, NCPU) = history.matched

\* C5: a frame that meets the WRAITH criteria, on a queue without an entry
\* in xsks_map or whose redirect helper returned anything but XDP_REDIRECT,
\* is dropped: dropped +1, redirected unchanged, one helper call.
C5_MissDrops ==
    \A c \in CPUs :
        /\ Done(c)
        /\ WraithCriteria(Frame(c))
        /\ \/ TableStable(c) /\ ctx[c].rx_queue_index \notin xsks_map
           \/ loc[c].ret # XDP_REDIRECT
        => /\ verdict[c] = XDP_DROP
           /\ stats_map = Counted(c, 1, Frame(c).len, 1, 0)
           /\ chk[c].calls = 1

\* C5 witness: a matching IPv6 frame dropped on the unregistered queue 3.
C5_Witness ==
    \E c \in CPUs :
        /\ Done(c)
        /\ WraithCriteria(Frame(c))
        /\ WellFormedV6Udp(Frame(c))
        /\ TableStable(c)
        /\ ctx[c].rx_queue_index = 3
        /\ 3 \notin xsks_map
        /\ verdict[c] = XDP_DROP
        /\ stats_map[c][STAT_DROPPED] = 1

\* C6: a frame of length L that meets the WRAITH criteria, on a queue that
\* is registered in xsks_map while the invocation runs, is redirected:
\* rx_packets +1, rx_bytes +L, redirected +1, dropped +0.
C6_HitRedirects ==
    \A c \in CPUs :
        /\ Done(c)
        /\ WraithCriteria(Frame(c))
        /\ TableStable(c)
        /\ ctx[c].rx_queue_index \in xsks_map
        => /\ verdict[c] = XDP_REDIRECT
           /\ stats_map = Counted(c, 1, Frame(c).len, 0, 1)

\* C6 witness: the 60-byte IPv4/UDP frame to port 41000 on the registered
\* queue 3 is redirected and rx_bytes is 60.
C6_Witness ==
    \E c \in CPUs :
        /\ Done(c)
        /\ Frame(c) = V4Frame(60, ETH_P_IP, 4, 5, 0, IPPROTO_UDP, 0, 34, 41000)
        /\ ctx[c].rx_queue_index = 3
        /\ 3 \in xsks_map
        /\ verdict[c] = XDP_REDIRECT
        /\ stats_map[c][STAT_RX_PACKETS] = 1
        /\ stats_map[c][STAT_RX_BYTES] = 60
        /\ stats_map[c][STAT_REDIRECTED] = 1
        /\ stats_map[c][STAT_DROPPED] = 0

\* C7: every invocation that was entered reaches "done" with exactly one of
\* XDP_PASS, XDP_DROP, XDP_REDIRECT; once there, the invocation changes
\* nothing any more and its only successor is the idle CPU.
C7_Terminates ==
    /\ \A c \in CPUs :
          (pc[c] = "entry") ~>
              (Done(c) /\ verdict[c] \in {XDP_PASS, XDP_DROP, XDP_REDIRECT})
    /\ [][\A c \in CPUs :
             /\ Done(c) /\ pc'[c] # "done" => pc'[c] = "idle"
             /\ Done(c) /\ pc'[c] = "done" =>
                   /\ verdict'[c] = verdict[c]
                   /\ stats_map'[c] = stats_map[c]
                   /\ ctx'[c] = ctx[c]
                   /\ loc'[c] = loc[c]
             /\ pc'[c] = "done" => verdict'[c] \in {XDP_PASS, XDP_DROP, XDP_REDIRECT}
             /\ pc[c] \notin {"idle", "done"} /\ pc'[c] \notin {"idle", "done"}
                   => verdict'[c] = -1]_vars

\* C7 witness: an invocation that went through every stage of the IPv6
\* path and ended in XDP_REDIRECT.
C7_Witness ==
    \E c \in CPUs :
        /\ Done(c)
        /\ verdict[c] = XDP_REDIRECT
        /\ WellFormedV6Udp(Frame(c))

\* C8 (as stated): an invocation given the same frame and running against
\* the same xsks_map as a remembered one returns the same action.
C8_SameBufferSameTable ==
    \A c \in CPUs : \A r \in history.seen :
        /\ Done(c)
        /\ TableStable(c)
        /\ r.frame = Frame(c)
        /\ r.table = xsks_map
        => verdict[c] = r.verdict

\* C8 (amended): an invocation given the same frame on the same RX queue
\* and running against the same xsks_map as a remembered one returns
\* the same action.
C8_SameBufferQueueTable ==
    \A c \in CPUs : \A r \in history.seen :
        /\ Done(c)
        /\ TableStable(c)
        /\ r.frame = Frame(c)
        /\ r.rx_queue_index = ctx[c].rx_queue_index
        /\ r.table = xsks_map
        => verdict[c] = r.verdict

\* C8 witness: the same matching frame redirected a second time, with the
\* counters now different from the first time.
C8_Witness ==
    \E c \in CPUs : \E r \in history.seen :
        /\ Done(c)
        /\ TableStable(c)
        /\ r.frame = Frame(c)
        /\ r.rx_queue_index = ctx[c].rx_queue_index
        /\ r.table = xsks_map
        /\ r.verdict = XDP_REDIRECT
        /\ verdict[c] = XDP_REDIRECT
        /\ stats_map[c][STAT_RX_PACKETS] = 2

\* C9: every header read lies inside the frame and inside a header struct
\* whose end had been proven <= data_end before; what is proven never
\* exceeds data_end.
C9_ReadsInBounds ==
    \A c \in CPUs :
        /\ chk[c].bound <= DataEnd(c)
        /\ chk[c].hi > chk[c].lo =>
              /\ chk[c].lo >= Data(c)
              /\ chk[c].hi <= DataEnd(c)
              /\ chk[c].hi <= chk[c].struct_end
              /\ chk[c].struct_end <= chk[c].bound

\* C9 witness: udp->dest read at 14 + 60 + 2 in a frame of exactly
\* 14 + 60 + 8 bytes (header length 15).
C9_Witness ==
    \E c \in CPUs :
        /\ chk[c].lo = 76
        /\ chk[c].hi = 78
        /\ DataEnd(c) = 82
        /\ Ihl(Frame(c)) = 15

\* C10: a frame whose ether-type is neither IPv4 nor IPv6, an IPv4 frame
\* whose protocol is not UDP and an IPv6 frame whose next header is not UDP
\* are passed.
C10_NonUdpPasses ==
    \A c \in CPUs :
        /\ Done(c)
        /\ \/ EtherType(Frame(c)) \notin {2048, 34525}
           \/ EtherType(Frame(c)) = 2048 /\ Byte(Frame(c), 23) # 17
           \/ EtherType(Frame(c)) = 34525 /\ Byte(Frame(c), 20) # 17
        => verdict[c] = XDP_PASS

\* C10 witness: a complete IPv4/TCP frame with 41000 where the UDP
\* destination port would be is passed.
C10_Witness ==
    \E c \in CPUs :
        /\ Done(c)
        /\ EtherType(Frame(c)) = 2048
        /\ L3Version(Frame(c)) = 4
        /\ Byte(Frame(c), 23) = 6
        /\ BE16(Frame(c), 36) = 41000
        /\ Frame(c).len = 60
        /\ verdict[c] = XDP_PASS


\* The end offset the parsers require of an IPv4 frame with header-length
\* field h: the fixed IPv4 header, and the UDP header behind 4*h bytes.
V4RequiredEnd(h) == Max(14 + 20, 14 + 4 * h + 8)

\* C11: a frame shorter than 14 bytes, an IPv4 frame shorter than 34 bytes
\* or shorter than 14 + 4*ihl + 8 bytes and an IPv6 frame shorter than 62
\* bytes are passed; a frame that meets the WRAITH criteria is redirected or
\* dropped at every length from its required end offset on, that exact
\* length included.
C11_TruncatedPass ==
    \A c \in CPUs :
        Done(c) =>
            /\ \/ Frame(c).len < 14
               \/ /\ EtherType(Frame(c)) = 2048
                  /\ Frame(c).len < V4RequiredEnd(Ihl(Frame(c)))
               \/ EtherType(Frame(c)) = 34525 /\ Frame(c).len < 62
               => verdict[c] = XDP_PASS
            /\ /\ WraithCriteria(Frame(c))
               /\ \/ /\ EtherType(Frame(c)) = 2048
                     /\ Frame(c).len >= V4RequiredEnd(Ihl(Frame(c)))
                  \/ EtherType(Frame(c)) = 34525 /\ Frame(c).len >= 62
               => verdict[c] \in Eligible

\* C11 witness: an IPv4 frame with header length 15 that ends exactly with
\* its UDP header (82 bytes) is redirected or dropped.
C11_Witness ==
    \E c \in CPUs :
        /\ Done(c)
        /\ WraithCriteria(Frame(c))
        /\ Ihl(Frame(c)) = 15
        /\ Frame(c).len = 82
        /\ verdict[c] \in Eligible

\* C12: every step leaves each of the four counters of each CPU unchanged
\* or adds a non-negative amount to it: no counter is decremented or reset.
C12_CountersMonotonic ==
    [][\A c \in CPUs : \A t \in StatTypes :
          stats_map'[c][t] >= stats_map[c][t]]_vars

\* C12 witness: a CPU's byte counter has grown twice, by a 60-byte and then
\* by a 42-byte frame, and its packet counter stands at 2.
C12_Witness ==
    \E c \in CPUs :
        /\ pc[c] = "redirect"
        /\ Frame(c).len = 42
        /\ stats_map[c][STAT_RX_BYTES] = 102
        /\ stats_map[c][STAT_RX_PACKETS] = 2

\* C13: under every interleaving of invocations on different CPUs, a step
\* of the invocation on CPU c changes no counter slot of another CPU, and
\* no addition is lost: whenever no invocation is in flight, each counter
\* summed over the CPUs is the sum of the deltas the completed invocations
\* applied (1 and the frame length for a redirected or dropped frame, 1 on
\* the outcome's counter).
C13_PerCpuNoLostUpdate ==
    /\ [][\A c \in CPUs :
             pc'[c] # pc[c] =>
                 \A d \in CPUs \ {c} : stats_map'[d] = stats_map[d]]_vars
    /\ [](InFlight = {} =>
             \A t \in StatTypes :
                 SumStat(stats_map, t, NCPU) = history.applied[t])

\* C13 witness: two invocations overlap on two CPUs, each between its own
\* counter updates.
C13_Witness ==
    \E c \in CPUs : \E d \in CPUs \ {c} :
        /\ pc[c] = "redirect"
        /\ pc[d] = "stat_rx_bytes"
        /\ stats_map[c][STAT_RX_PACKETS] = 1
        /\ stats_map[c][STAT_RX_BYTES] = 60
        /\ stats_map[d][STAT_RX_PACKETS] = 1
        /\ stats_map[d][STAT_RX_BYTES] = 0

\* The received counters of CPU c stand at their entry values plus one
\* packet and the frame's length.
RxCounted(c) ==
    /\ stats_map[c][STAT_RX_PACKETS] = entry[c].stats[c][STAT_RX_PACKETS] + 1
    /\ stats_map[c][STAT_RX_BYTES]
       = entry[c].stats[c][STAT_RX_BYTES] + Frame(c).len

\* The outcome counters of CPU c stand at their entry values.
OutcomeUncounted(c) ==
    /\ stats_map[c][STAT_REDIRECTED] = entry[c].stats[c][STAT_REDIRECTED]
    /\ stats_map[c][STAT_DROPPED] = entry[c].stats[c][STAT_DROPPED]

\* C14: in an invocation the redirect helper is called only after rx_packets
\* and rx_bytes were incremented, and they stay incremented whatever the
\* helper returns; redirected or dropped is incremented only after the
\* helper returned; an invocation that ends in XDP_PASS never called it.
C14_CountBeforeRedirect ==
    \A c \in CPUs :
        pc[c] # "idle" =>
            /\ pc[c] = "redirect" => RxCounted(c) /\ chk[c].calls = 0
            /\ chk[c].calls >= 1 => RxCounted(c)
            /\ chk[c].calls = 0 => OutcomeUncounted(c)
            /\ pc[c] \in {"stat_redirected", "stat_dropped"} =>
                   chk[c].calls = 1 /\ OutcomeUncounted(c)
            /\ Done(c) /\ verdict[c] \in Eligible =>
                   /\ chk[c].calls = 1
                   /\ ~OutcomeUncounted(c)
            /\ pc[c] = "pass" \/ verdict[c] = XDP_PASS => chk[c].calls = 0

\* C14 witness: the helper has returned a failure for the second matching
\* frame of a CPU; the frame is counted as received and not yet as dropped.
C14_Witness ==
    \E c \in CPUs :
        /\ pc[c] = "stat_dropped"
        /\ loc[c].ret # XDP_REDIRECT
        /\ chk[c].calls = 1
        /\ stats_map[c][STAT_RX_PACKETS] = 2
        /\ stats_map[c][STAT_REDIRECTED] + stats_map[c][STAT_DROPPED] = 1

\* C15 (as stated): the fragmentation test ignores the don't-fragment bit
\* and depends on exactly the more-fragments bit and the 13 offset bits: a
\* complete IPv4/UDP frame for a port in range is redirected or dropped
\* exactly when its more-fragments bit is clear and its fragment offset is
\* 0, with the don't-fragment bit set and with it clear.
C15_FragTestBits ==
    \A c \in CPUs :
        /\ Done(c)
        /\ WellFormedV4Udp(Frame(c))
        /\ DestPort(Frame(c)) \in 40000..50000
        => (verdict[c] \in Eligible
            <=> ~MoreFragments(Frame(c)) /\ FragOffset(Frame(c)) = 0)

\* C16: for an IPv4 frame with header-length field h the UDP header view
\* starts at 14 + 4*h and the destination port is the big-endian 16-bit
\* value at 14 + 4*h + 2: a frame that gets as far as the port test is
\* redirected or dropped exactly when that value is in range, and for h > 5
\* no read is made at offset 14 + 20 + 2.
C16_PortBehindOptions ==
    \A c \in CPUs :
        pc[c] # "idle" /\ EtherType(Frame(c)) = 2048 =>
            LET h == Ihl(Frame(c)) IN
            /\ loc[c].udp # 0 => loc[c].udp = 14 + 4 * h
            /\ pc[c] \in {"stat_rx_packets", "stat_rx_bytes", "redirect",
                          "stat_redirected", "stat_dropped"} =>
                   loc[c].dport = BE16(Frame(c), 14 + 4 * h + 2)
            /\ h > 5 => chk[c].lo # 14 + 20 + 2
            /\ /\ Done(c)
               /\ L3Version(Frame(c)) = 4
               /\ FragOffset(Frame(c)) = 0
               /\ Byte(Frame(c), 23) = 17
               /\ Frame(c).len >= V4RequiredEnd(h)
               => (verdict[c] \in Eligible
                   <=> BE16(Frame(c), 14 + 4 * h + 2) \in 40000..50000)

\* C16 witness: a frame with header length 6 and port 41000 at offset
\* 14 + 20 + 2 has had its port read at offset 14 + 24 + 2 and is passed.
C16_Witness ==
    \E c \in CPUs :
        /\ Done(c)
        /\ Ihl(Frame(c)) = 6
        /\ BE16(Frame(c), 36) = 41000
        /\ BE16(Frame(c), 40) = 0
        /\ loc[c].udp = 38
        /\ chk[c].lo = 40
        /\ verdict[c] = XDP_PASS

\* What an invocation returning action v for a frame of len bytes adds to
\* counter t when the slot is there.
VerdictDelta(v, len, t) ==
    IF v \notin Eligible THEN 0
    ELSE IF t = STAT_RX_PACKETS THEN 1
    ELSE IF t = STAT_RX_BYTES THEN len
    ELSE IF t = STAT_REDIRECTED THEN (IF v = XDP_REDIRECT THEN 1 ELSE 0)
    ELSE (IF v = XDP_DROP THEN 1 ELSE 0)

\* C17: when the lookup of a statistics slot fails, update_stat changes
\* nothing (no slot appears, no other slot changes) and the invocation goes
\* on: a frame that meets the WRAITH criteria is redirected on a registered
\* queue and dropped otherwise, as with every slot present, and each slot
\* that is present receives its delta.
C17_AbsentSlotSkipped ==
    \A c \in CPUs :
        pc[c] # "idle" =>
            /\ \A d \in CPUs :
                   DOMAIN stats_map[d] = DOMAIN entry[c].stats[d]
            /\ Done(c) =>
                /\ WraithCriteria(Frame(c)) /\ TableStable(c) =>
                       verdict[c] = IF ctx[c].rx_queue_index \in xsks_map
                                    THEN XDP_REDIRECT ELSE XDP_DROP
                /\ \A t \in DOMAIN stats_map[c] :
                       stats_map[c][t]
                       = entry[c].stats[c][t]
                         + VerdictDelta(verdict[c], Frame(c).len, t)
                /\ \A d \in CPUs \ {c} : stats_map[d] = entry[c].stats[d]

\* C17 witness: with no rx_packets slot a matching 60-byte frame is
\* redirected, and the three slots that are there are updated.
C17_Witness ==
    \E c \in CPUs :
        /\ Done(c)
        /\ DOMAIN stats_map[c] = StatTypes \ {STAT_RX_PACKETS}
        /\ verdict[c] = XDP_REDIRECT
        /\ stats_map[c][STAT_RX_BYTES] = 60
        /\ stats_map[c][STAT_REDIRECTED] = 1
        /\ stats_map[c][STAT_DROPPED] = 0

\* C18: a frame with ether-type IPv4 whose version nibble is not 4 and a
\* frame with ether-type IPv6 whose version nibble is not 6 are passed; the
\* ether-type alone selects the parser, and a frame never enters the parser
\* of the other family.
C18_VersionMismatchPasses ==
    \A c \in CPUs :
        pc[c] # "idle" =>
            /\ /\ Done(c)
               /\ \/ EtherType(Frame(c)) = 2048 /\ L3Version(Frame(c)) # 4
                  \/ EtherType(Frame(c)) = 34525 /\ L3Version(Frame(c)) # 6
               => verdict[c] = XDP_PASS
            /\ EtherType(Frame(c)) = 2048 =>
                   pc[c] \notin {"ip6_bounds", "ip6_version", "udp6_next",
                                 "udp6_bounds"}
            /\ EtherType(Frame(c)) = 34525 =>
                   pc[c] \notin {"ip_bounds", "ip_version", "ip_frag",
                                 "udp4_proto", "udp4_bounds"}

\* C18 witness: a complete IPv6-layout UDP frame for port 41000 that is
\* labelled with the IPv4 ether-type is passed.
C18_Witness ==
    \E c \in CPUs :
        /\ Done(c)
        /\ EtherType(Frame(c)) = 2048
        /\ L3Version(Frame(c)) = 6
        /\ Byte(Frame(c), 20) = 17
        /\ BE16(Frame(c), 56) = 41000
        /\ Frame(c).len = 62
        /\ verdict[c] = XDP_PASS

\* C19: in every reachable state, mid-invocation states included, each CPU's
\* counters satisfy redirected + dropped <= rx_packets <= redirected +
\* dropped + 1, with equality on the left whenever no invocation is in
\* flight on that CPU.
C19_OutcomeWithinOne ==
    \A c \in CPUs :
        LET settled == stats_map[c][STAT_REDIRECTED]
                       + stats_map[c][STAT_DROPPED]
            received == stats_map[c][STAT_RX_PACKETS]
        IN  /\ settled <= received
            /\ received <= settled + 1
            /\ pc[c] = "idle" => received = settled

\* C19 witness: a CPU that has dropped one frame is between counting its
\* next frame as received and counting its outcome.
C19_Witness ==
    \E c \in CPUs :
        /\ pc[c] = "redirect"
        /\ stats_map[c][STAT_RX_PACKETS] = 2
        /\ stats_map[c][STAT_DROPPED] = 1
        /\ stats_map[c][STAT_REDIRECTED] = 0

\* C20 (as stated): an IPv4 frame is redirected or dropped only if its
\* header-length field is at least 5; a frame with header length 0..4 is
\* passed.
C20_ShortIhlPasses ==
    \A c \in CPUs :
        /\ Done(c)
        /\ EtherType(Frame(c)) = 2048
        /\ Ihl(Frame(c)) < 5
        => verdict[c] = XDP_PASS
=============================================================================
